---- MODULE Spec2Model ----
(***************************************************************************)
(* Model of src/main.py: the GPX anonymizer (anonymize_gpx) and the two    *)
(* request handlers that call it.                                          *)
(*                                                                         *)
(* Geometry.  Coordinates are stored in degrees, as in the GPX points.     *)
(* The inputs are drawn from the points of the sphere whose latitude and   *)
(* longitude are multiples of 90 degrees; on them every sine and cosine    *)
(* the code takes is -1, 0 or 1 and every haversine term is 0, 1/2 or 1,   *)
(* so the code's formulas are evaluated exactly, in integers:              *)
(*   - an angle in radians is counted in octants (units of pi/4);          *)
(*   - a distance in kilometres is counted in units of pi/4 km, a distance *)
(*     in metres in units of pi/4 m (6371 * c km with c in octants);       *)
(*   - the haversine term a is carried doubled (2a is 0, 1 or 2).          *)
(* Floating-point rounding is not part of the model.                       *)
(***************************************************************************)
EXTENDS Integers, Sequences, FiniteSets, TLC

\* ---------------------------------------------------------------- bounds
MaxPts == 3          \* longest first segment of the directly called core
MaxTracks == 2       \* most tracks of a structured document
MaxSegs == 2         \* most segments of a track of a structured document
MaxRequests == 2     \* most requests the service serves

\* ------------------------------------------------------ program constants
R == 6371                  \* calculate_distance: Earth's radius, km
EARTH_RADIUS == 6371000    \* anonymize_gpx: Earth's radius, m

VARIABLES
    gpx_data,              \* the GPX text handed to anonymize_gpx
    gpx,                   \* the parsed document, mutated in place
    pc,                    \* position inside anonymize_gpx
    i,                     \* index of the running for loop
    original_points,       \* line 85
    original_distances,    \* metres, line 98
    segment_distances,     \* kilometres, line 97
    segment_bearings,      \* radians, line 107
    original_distance,     \* line 110
    anonymized_distances,  \* metres, line 152
    anonymized_distance,   \* line 155
    max_diff,              \* line 158-162
    result,                \* what anonymize_gpx returned or raised
    hpc,                   \* position inside the request handler
    request,               \* the request being handled
    response,              \* the response the handler produced
    temp_files,            \* temporary files present on disk
    served                 \* number of responses sent

core_vars == <<gpx_data, gpx, pc, i, original_points, original_distances,
               segment_distances, segment_bearings, original_distance,
               anonymized_distances, anonymized_distance, max_diff, result>>
handler_vars == <<hpc, request, response, temp_files, served>>
vars == <<gpx_data, gpx, pc, i, original_points, original_distances,
          segment_distances, segment_bearings, original_distance,
          anonymized_distances, anonymized_distance, max_diff, result,
          hpc, request, response, temp_files, served>>

\* ------------------------------------------------------------- arithmetic
RECURSIVE sum(_)
sum(s) == IF s = <<>> THEN 0 ELSE Head(s) + sum(Tail(s))

abs(x) == IF x < 0 THEN -x ELSE x

\* math.radians / math.degrees: degrees <-> octants of a radian measure
radians(deg) == deg \div 45
degrees(rad) == rad * 45

\* math.sin, math.cos at a whole number of quarter turns
sin(rad) == CASE rad % 8 = 0 -> 0
              [] rad % 8 = 2 -> 1
              [] rad % 8 = 4 -> 0
              [] rad % 8 = 6 -> -1
cos(rad) == CASE rad % 8 = 0 -> 1
              [] rad % 8 = 2 -> 0
              [] rad % 8 = 4 -> -1
              [] rad % 8 = 6 -> 0

\* 2 * math.sin(d/2)**2 for d a whole number of quarter turns
sin_half_sq2(d) == CASE (d \div 2) % 4 = 0 -> 0
                     [] (d \div 2) % 4 = 1 -> 1
                     [] (d \div 2) % 4 = 2 -> 2
                     [] (d \div 2) % 4 = 3 -> 1

\* 2 * math.asin(math.sqrt(a)), given a2 = 2a
two_asin_sqrt(a2) == CASE a2 = 0 -> 0
                       [] a2 = 1 -> 2
                       [] a2 = 2 -> 4

\* math.asin at -1, 0, 1
asin(s) == CASE s = -1 -> -2
             [] s = 0 -> 0
             [] s = 1 -> 2

\* math.atan2(y, x) on the axes and the diagonals; atan2(0, 0) = 0
atan2(y, x) == CASE y = 0 /\ x >= 0 -> 0
                 [] y = 0 /\ x < 0 -> 4
                 [] x = 0 /\ y > 0 -> 2
                 [] x = 0 /\ y < 0 -> -2
                 [] x = y /\ x > 0 -> 1
                 [] x = -y /\ y > 0 -> 3
                 [] x = y /\ x < 0 -> -3
                 [] x = -y /\ y < 0 -> -1

\* calculate_distance, lines 54-66: haversine distance in km
calculate_distance(lat1, lon1, lat2, lon2) ==
    LET rlat1 == radians(lat1)
        rlon1 == radians(lon1)
        rlat2 == radians(lat2)
        rlon2 == radians(lon2)
        dlat == rlat2 - rlat1
        dlon == rlon2 - rlon1
        a2 == sin_half_sq2(dlat) + cos(rlat1) * cos(rlat2) * sin_half_sq2(dlon)
        c == two_asin_sqrt(a2)
    IN  R * c

\* lines 101-106: initial bearing from p1 to p2, radians
calculate_bearing(p1, p2) ==
    LET lat1 == radians(p1.latitude)
        lon1 == radians(p1.longitude)
        lat2 == radians(p2.latitude)
        lon2 == radians(p2.longitude)
        dlon == lon2 - lon1
        y == sin(dlon) * cos(lat2)
        x == cos(lat1) * sin(lat2) - sin(lat1) * cos(lat2) * cos(dlon)
    IN  atan2(y, x)

\* new_position without the conversion of the leg distance to metres
new_position_km_as_m(prev, seg_dist, bearing) ==
    LET dist == seg_dist
        prev_lat == radians(prev.latitude)
        prev_lon == radians(prev.longitude)
        angular_dist == dist \div EARTH_RADIUS
        new_lat == asin(sin(prev_lat) * cos(angular_dist)
                        + cos(prev_lat) * sin(angular_dist) * cos(bearing))
        new_lon == prev_lon + atan2(sin(bearing) * sin(angular_dist) * cos(prev_lat),
                                    cos(angular_dist) - sin(prev_lat) * sin(new_lat))
    IN  [latitude |-> degrees(new_lat), longitude |-> degrees(new_lon)]

\* lines 120-143: the point at distance seg_dist (km) and bearing from prev
new_position(prev, seg_dist, bearing) ==
    LET dist == seg_dist * 1000
        prev_lat == radians(prev.latitude)
        prev_lon == radians(prev.longitude)
        angular_dist == dist \div EARTH_RADIUS
        new_lat == asin(sin(prev_lat) * cos(angular_dist)
                        + cos(prev_lat) * sin(angular_dist) * cos(bearing))
        new_lon == prev_lon + atan2(sin(bearing) * sin(angular_dist) * cos(prev_lat),
                                    cos(angular_dist) - sin(prev_lat) * sin(new_lat))
    IN  [latitude |-> degrees(new_lat), longitude |-> degrees(new_lon)]

\* ------------------------------------------------------------- documents
\* An elevation is <<>> when the point has none and <<e>> when it is e.
NoElevation == <<>>

\* p.elevation if p.elevation else 0 (line 85)
elevation_or_zero(p) ==
    IF p.elevation = NoElevation \/ p.elevation = <<0>> THEN 0 ELSE p.elevation[1]

Coordinates == {<<0, 0>>, <<0, 90>>, <<0, 180>>, <<0, -90>>, <<90, 0>>, <<-90, 90>>}
Elevations == {NoElevation, <<0>>, <<35>>}
Points == {[latitude |-> c[1], longitude |-> c[2], elevation |-> e] :
              c \in Coordinates, e \in Elevations}

SeqsUpTo(S, n) == UNION {[1..k -> S] : k \in 0..n}

\* a segment is its list of points; a track is its list of segments
Segment(ps) == [points |-> ps]
Track(ss) == [segments |-> ss]

\* gpxpy.parse of a well-formed text yields its tracks (line 71)
Text(ts) == [wellformed |-> TRUE, tracks |-> ts]
Malformed == [wellformed |-> FALSE, tracks |-> <<>>]

\* segments and tracks that accompany the processed segment in a
\* structured document
ExtraPoints == {[latitude |-> 0, longitude |-> 90, elevation |-> <<35>>],
                [latitude |-> 90, longitude |-> 0, elevation |-> NoElevation]}
ExtraSegments == {Segment(<<>>)} \cup
                 {Segment(<<pq[1], pq[2]>>) :
                     pq \in {x \in ExtraPoints \X ExtraPoints : x[1] # x[2]}}
StructuredDocuments ==
    SeqsUpTo({Track(ss) : ss \in SeqsUpTo(ExtraSegments, MaxSegs)}, MaxTracks)
SingleSegmentDocuments ==
    {<<Track(<<Segment(ps)>>)>> : ps \in SeqsUpTo(Points, MaxPts)}

DirectInputs ==
    {Malformed} \cup {Text(d) : d \in StructuredDocuments \cup SingleSegmentDocuments}

\* gpx.to_xml(), line 175: every track, segment and point of the document
\* in order, each point with its lat, lon and (when present) ele
to_xml(g) ==
    [t \in DOMAIN g |->
        [s \in DOMAIN g[t].segments |->
            [k \in DOMAIN g[t].segments[s].points |->
                LET p == g[t].segments[s].points[k]
                IN  <<"trkpt", p.latitude, p.longitude, p.elevation>>]]]

\* track = gpx.tracks[0]; segment = track.segments[0] (lines 76, 80)
segment_points(g) == g[1].segments[1].points

\* set_point with `segment` bound to the last segment of the track
set_point_last_segment(g, k, p) ==
    [g EXCEPT ![1].segments[Len(g[1].segments)].points[k] = p]

\* segment.points[k].<field> = ... : a write through the alias `segment`
set_point(g, k, p) == [g EXCEPT ![1].segments[1].points[k] = p]

\* ------------------------------------------------- anonymize_gpx, by step
NoResult == [kind |-> "none"]

\* except Exception as e: raise HTTPException(status_code=400, ...) (177-179)
Raised400(msg) == [kind |-> "HTTPException", status_code |-> 400, detail |-> msg]

Locals0 ==
    /\ i = 0
    /\ original_points = <<>>
    /\ original_distances = <<>>
    /\ segment_distances = <<>>
    /\ segment_bearings = <<>>
    /\ original_distance = 0
    /\ anonymized_distances = <<>>
    /\ anonymized_distance = 0
    /\ max_diff = 0
    /\ result = NoResult

UnchangedLocals ==
    UNCHANGED <<i, original_points, original_distances, segment_distances,
                segment_bearings, original_distance, anonymized_distances,
                anonymized_distance, max_diff>>

Raise(msg) ==
    /\ pc' = "raised"
    /\ result' = Raised400(msg)
    /\ UnchangedLocals
    /\ UNCHANGED <<gpx_data, handler_vars>>

\* line 71: gpxpy.parse raises on a text that is no GPX document
ParseError ==
    /\ pc = "start"
    /\ ~gpx_data.wellformed
    /\ UNCHANGED gpx
    /\ Raise("parse error")

\* lines 73-74
RaiseNoTracks ==
    /\ pc = "start"
    /\ gpx_data.wellformed
    /\ gpx_data.tracks = <<>>
    /\ gpx' = gpx_data.tracks
    /\ Raise("No tracks found in GPX file")

\* RaiseNoSegments answering a track without segments with an empty result
ReturnOnNoSegments ==
    /\ pc = "start"
    /\ gpx_data.wellformed
    /\ gpx_data.tracks # <<>>
    /\ gpx_data.tracks[1].segments = <<>>
    /\ gpx' = gpx_data.tracks
    /\ pc' = "returned"
    /\ result' = [kind |-> "return", xml |-> to_xml(gpx'),
                  original_distance |-> 0, anonymized_distance |-> 0]
    /\ UnchangedLocals
    /\ UNCHANGED <<gpx_data, handler_vars>>

\* lines 76-78
RaiseNoSegments ==
    /\ pc = "start"
    /\ gpx_data.wellformed
    /\ gpx_data.tracks # <<>>
    /\ gpx_data.tracks[1].segments = <<>>
    /\ gpx' = gpx_data.tracks
    /\ Raise("No segments found in track")

\* lines 80-82
RaiseNoPoints ==
    /\ pc = "start"
    /\ gpx_data.wellformed
    /\ gpx_data.tracks # <<>>
    /\ gpx_data.tracks[1].segments # <<>>
    /\ segment_points(gpx_data.tracks) = <<>>
    /\ gpx' = gpx_data.tracks
    /\ Raise("No points found in segment")

\* StorePoints with the reset of point 0 (lines 113-114) done before the
\* extraction loop
StorePointsResetFirst ==
    /\ pc = "start"
    /\ gpx_data.wellformed
    /\ gpx_data.tracks # <<>>
    /\ gpx_data.tracks[1].segments # <<>>
    /\ segment_points(gpx_data.tracks) # <<>>
    /\ gpx' = set_point(gpx_data.tracks, 1,
                 [segment_points(gpx_data.tracks)[1] EXCEPT
                     !.latitude = 0, !.longitude = 0])
    /\ original_points' =
          [k \in DOMAIN segment_points(gpx_data.tracks) |->
              LET p == segment_points(gpx_data.tracks)[k]
              IN  <<p.latitude, p.longitude, elevation_or_zero(p)>>]
    /\ original_distances' = <<>>
    /\ segment_distances' = <<>>
    /\ segment_bearings' = <<>>
    /\ i' = 0
    /\ pc' = "extract"
    /\ UNCHANGED <<gpx_data, original_distance, anonymized_distances,
                   anonymized_distance, max_diff, result, handler_vars>>

\* lines 71-90: the input passes validation; the points are recorded and
\* the lists of leg metrics start empty
StorePoints ==
    /\ pc = "start"
    /\ gpx_data.wellformed
    /\ gpx_data.tracks # <<>>
    /\ gpx_data.tracks[1].segments # <<>>
    /\ segment_points(gpx_data.tracks) # <<>>
    /\ gpx' = gpx_data.tracks
    /\ original_points' =
          [k \in DOMAIN segment_points(gpx') |->
              LET p == segment_points(gpx')[k]
              IN  <<p.latitude, p.longitude, elevation_or_zero(p)>>]
    /\ original_distances' = <<>>
    /\ segment_distances' = <<>>
    /\ segment_bearings' = <<>>
    /\ i' = 0
    /\ pc' = "extract"
    /\ UNCHANGED <<gpx_data, original_distance, anonymized_distances,
                   anonymized_distance, max_diff, result, handler_vars>>

\* lines 92-107: one iteration of the extraction loop, leg i (0-based)
ExtractLeg ==
    /\ pc = "extract"
    /\ i < Len(segment_points(gpx)) - 1
    /\ LET p1 == segment_points(gpx)[i + 1]
           p2 == segment_points(gpx)[i + 2]
           dist == calculate_distance(p1.latitude, p1.longitude,
                                      p2.latitude, p2.longitude)
       IN  /\ segment_distances' = Append(segment_distances, dist)
           /\ original_distances' = Append(original_distances, dist * 1000)
           /\ segment_bearings' = Append(segment_bearings, calculate_bearing(p1, p2))
    /\ i' = i + 1
    /\ UNCHANGED <<gpx_data, gpx, pc, original_points, original_distance,
                   anonymized_distances, anonymized_distance, max_diff, result,
                   handler_vars>>

\* ResetOrigin that also sets the elevation of point 0 to 0
ResetOriginAndElevation ==
    /\ pc = "extract"
    /\ i >= Len(segment_points(gpx)) - 1
    /\ original_distance' = sum(segment_distances)
    /\ gpx' = set_point(gpx, 1, [latitude |-> 0, longitude |-> 0, elevation |-> <<0>>])
    /\ i' = 0
    /\ pc' = "reconstruct"
    /\ UNCHANGED <<gpx_data, original_points, original_distances, segment_distances,
                   segment_bearings, anonymized_distances, anonymized_distance,
                   max_diff, result, handler_vars>>

\* ResetOrigin that sets the latitude of point 0 only
ResetOriginLatitudeOnly ==
    /\ pc = "extract"
    /\ i >= Len(segment_points(gpx)) - 1
    /\ original_distance' = sum(segment_distances)
    /\ gpx' = set_point(gpx, 1, [segment_points(gpx)[1] EXCEPT !.latitude = 0])
    /\ i' = 0
    /\ pc' = "reconstruct"
    /\ UNCHANGED <<gpx_data, original_points, original_distances, segment_distances,
                   segment_bearings, anonymized_distances, anonymized_distance,
                   max_diff, result, handler_vars>>

\* lines 110-114: the extraction loop is over; total, then point 0 to (0, 0)
ResetOrigin ==
    /\ pc = "extract"
    /\ i >= Len(segment_points(gpx)) - 1
    /\ original_distance' = sum(segment_distances)
    /\ gpx' = set_point(gpx, 1, [segment_points(gpx)[1] EXCEPT
                                    !.latitude = 0, !.longitude = 0])
    /\ i' = 0
    /\ pc' = "reconstruct"
    /\ UNCHANGED <<gpx_data, original_points, original_distances, segment_distances,
                   segment_bearings, anonymized_distances, anonymized_distance,
                   max_diff, result, handler_vars>>

\* the elevation of the point before k
preserved_elevation_previous(points, k) == <<points[k - 1][3]>>

\* line 145: segment.points[i + 1].elevation = original_points[i + 1][2],
\* for the point at position k of the list
preserved_elevation(points, k) == <<points[k][3]>>

\* ReconstructLeg writing segment.points[i] instead of segment.points[i + 1]
ReconstructLegWritesCurrent ==
    /\ pc = "reconstruct"
    /\ i < Len(segment_distances)
    /\ LET np == new_position(segment_points(gpx)[i + 1], segment_distances[i + 1],
                              segment_bearings[i + 1])
       IN  gpx' = set_point(gpx, i + 1,
                     [latitude |-> np.latitude, longitude |-> np.longitude,
                      elevation |-> preserved_elevation(original_points, i + 1)])
    /\ i' = i + 1
    /\ UNCHANGED <<gpx_data, pc, original_points, original_distances,
                   segment_distances, segment_bearings, original_distance,
                   anonymized_distances, anonymized_distance, max_diff, result,
                   handler_vars>>

\* lines 119-145: one iteration of the reconstruction loop, leg i (0-based)
ReconstructLeg ==
    /\ pc = "reconstruct"
    /\ i < Len(segment_distances)
    /\ LET np == new_position(segment_points(gpx)[i + 1], segment_distances[i + 1],
                              segment_bearings[i + 1])
       IN  gpx' = set_point(gpx, i + 2,
                     [latitude |-> np.latitude, longitude |-> np.longitude,
                      elevation |-> preserved_elevation(original_points, i + 2)])
    /\ i' = i + 1
    /\ UNCHANGED <<gpx_data, pc, original_points, original_distances,
                   segment_distances, segment_bearings, original_distance,
                   anonymized_distances, anonymized_distance, max_diff, result,
                   handler_vars>>

\* lines 147-148: the reconstruction loop is over; verification starts
StartVerify ==
    /\ pc = "reconstruct"
    /\ i >= Len(segment_distances)
    /\ anonymized_distances' = <<>>
    /\ i' = 0
    /\ pc' = "verify"
    /\ UNCHANGED <<gpx_data, gpx, original_points, original_distances,
                   segment_distances, segment_bearings, original_distance,
                   anonymized_distance, max_diff, result, handler_vars>>

\* lines 149-152: one iteration of the verification loop
VerifyLeg ==
    /\ pc = "verify"
    /\ i < Len(segment_points(gpx)) - 1
    /\ LET p1 == segment_points(gpx)[i + 1]
           p2 == segment_points(gpx)[i + 2]
           dist == calculate_distance(p1.latitude, p1.longitude,
                                      p2.latitude, p2.longitude)
       IN  anonymized_distances' = Append(anonymized_distances, dist * 1000)
    /\ i' = i + 1
    /\ UNCHANGED <<gpx_data, gpx, pc, original_points, original_distances,
                   segment_distances, segment_bearings, original_distance,
                   anonymized_distance, max_diff, result, handler_vars>>

\* lines 158-162: the largest |orig - anon| over zip(original, anonymized)
RECURSIVE max_difference(_, _)
max_difference(orig, anon) ==
    IF orig = <<>> \/ anon = <<>> THEN 0
    ELSE LET diff == abs(Head(orig) - Head(anon))
             rest == max_difference(Tail(orig), Tail(anon))
         IN  IF diff > rest THEN diff ELSE rest

\* sum(d / 1000 for d in anonymized_distances), line 155
RECURSIVE sum_km(_)
sum_km(ds) == IF ds = <<>> THEN 0 ELSE (Head(ds) \div 1000) + sum_km(Tail(ds))

\* lines 155-175: totals, largest difference, return
Return ==
    /\ pc = "verify"
    /\ i >= Len(segment_points(gpx)) - 1
    /\ anonymized_distance' = sum_km(anonymized_distances)
    /\ max_diff' = max_difference(original_distances, anonymized_distances)
    /\ result' = [kind |-> "return", xml |-> to_xml(gpx),
                  original_distance |-> original_distance,
                  anonymized_distance |-> anonymized_distance']
    /\ pc' = "returned"
    /\ UNCHANGED <<gpx_data, gpx, i, original_points, original_distances,
                   segment_distances, segment_bearings, original_distance,
                   anonymized_distances, handler_vars>>

Core ==
    \/ ParseError
    \/ RaiseNoTracks
    \/ RaiseNoSegments
    \/ RaiseNoPoints
    \/ StorePoints
    \/ ExtractLeg
    \/ ResetOrigin
    \/ ReconstructLeg
    \/ StartVerify
    \/ VerifyLeg
    \/ Return

\* ------------------------------------------------ anonymize_gpx called directly
NoRequest == [endpoint |-> "none"]
NoResponse == [status_code |-> 0]

Init ==
    /\ gpx_data \in DirectInputs
    /\ gpx = <<>>
    /\ pc = "start"
    /\ Locals0
    /\ hpc = "direct"
    /\ request = NoRequest
    /\ response = NoResponse
    /\ temp_files = {}
    /\ served = 0

Next == Core

Spec == Init /\ [][Next]_vars

\* ------------------------------------------------------ the request handlers
\* anonymize_gpx_file (lines 181-218), anonymize_gpx_file_download (220-268)
Endpoints == {"anonymize", "download"}

ServiceInputs == {Malformed} \cup {Text(d) : d \in StructuredDocuments}

\* except Exception as e: raise HTTPException(status_code=500, ...)
\* (lines 216-218, 266-268)
Error500 == [status_code |-> 500]

\* a request arrives: an uploaded file with a name and a content
Request ==
    /\ hpc = "idle"
    /\ served < MaxRequests
    /\ \E e \in Endpoints, named_gpx \in BOOLEAN, utf8 \in BOOLEAN,
          content \in ServiceInputs :
          request' = [endpoint |-> e, named_gpx |-> named_gpx, utf8 |-> utf8,
                      content |-> content]
    /\ hpc' = "try"
    /\ UNCHANGED <<core_vars, response, temp_files, served>>

\* lines 192-193 / 231-232: the HTTPException(400) is raised inside the try
\* and caught by the handler's own except Exception
RejectFilename ==
    /\ hpc = "try"
    /\ ~request.named_gpx
    /\ response' = Error500
    /\ hpc' = "respond"
    /\ UNCHANGED <<core_vars, request, temp_files, served>>

\* lines 196-197 / 235-236: content.decode('utf-8') raises
RejectDecode ==
    /\ hpc = "try"
    /\ request.named_gpx
    /\ ~request.utf8
    /\ response' = Error500
    /\ hpc' = "respond"
    /\ UNCHANGED <<core_vars, request, temp_files, served>>

\* lines 196-200 / 235-239: anonymize_gpx is entered with the decoded text
CallCore ==
    /\ hpc = "try"
    /\ request.named_gpx
    /\ request.utf8
    /\ gpx_data' = request.content
    /\ gpx' = <<>>
    /\ pc' = "start"
    /\ i' = 0
    /\ original_points' = <<>>
    /\ original_distances' = <<>>
    /\ segment_distances' = <<>>
    /\ segment_bearings' = <<>>
    /\ original_distance' = 0
    /\ anonymized_distances' = <<>>
    /\ anonymized_distance' = 0
    /\ max_diff' = 0
    /\ result' = NoResult
    /\ hpc' = "call"
    /\ UNCHANGED <<request, response, temp_files, served>>

\* the HTTPException anonymize_gpx raised reaches except Exception
\* (lines 216-218 / 266-268)
CoreRaised ==
    /\ hpc = "call"
    /\ pc = "raised"
    /\ response' = Error500
    /\ hpc' = "respond"
    /\ UNCHANGED <<core_vars, request, temp_files, served>>

\* lines 202-214: the JSON answer of /api/v1/anonymize
AnonymizeRespond ==
    /\ hpc = "call"
    /\ pc = "returned"
    /\ request.endpoint = "anonymize"
    /\ response' = [status_code |-> 200, gpx_data |-> result.xml,
                    original_distance |-> result.original_distance,
                    anonymized_distance |-> result.anonymized_distance]
    /\ hpc' = "respond"
    /\ UNCHANGED <<core_vars, request, temp_files, served>>

\* lines 241-264: NamedTemporaryFile(delete=False) is written and closed,
\* then FileResponse(temp_file_path, ..., background=None) is returned
DownloadRespond ==
    /\ hpc = "call"
    /\ pc = "returned"
    /\ request.endpoint = "download"
    /\ temp_files' = temp_files \cup {served + 1}
    /\ response' = [status_code |-> 200, path |-> served + 1, background |-> "None"]
    /\ hpc' = "respond"
    /\ UNCHANGED <<core_vars, request, served>>

\* the response is sent and the request is over: the handler's frame and
\* the locals of anonymize_gpx are gone.  A FileResponse whose background
\* is None runs nothing after the send, and the handler has no other
\* cleanup, so the files on disk stay as they are
Send ==
    /\ hpc = "respond"
    /\ served' = served + 1
    /\ hpc' = "idle"
    /\ request' = NoRequest
    /\ response' = NoResponse
    /\ gpx_data' = Text(<<>>)
    /\ gpx' = <<>>
    /\ pc' = "idle"
    /\ i' = 0
    /\ original_points' = <<>>
    /\ original_distances' = <<>>
    /\ segment_distances' = <<>>
    /\ segment_bearings' = <<>>
    /\ original_distance' = 0
    /\ anonymized_distances' = <<>>
    /\ anonymized_distance' = 0
    /\ max_diff' = 0
    /\ result' = NoResult
    /\ UNCHANGED temp_files

Handler ==
    \/ Request
    \/ RejectFilename
    \/ RejectDecode
    \/ CallCore
    \/ CoreRaised
    \/ AnonymizeRespond
    \/ DownloadRespond
    \/ Send

ServiceInit ==
    /\ gpx_data = Text(<<>>)
    /\ gpx = <<>>
    /\ pc = "idle"
    /\ Locals0
    /\ hpc = "idle"
    /\ request = NoRequest
    /\ response = NoResponse
    /\ temp_files = {}
    /\ served = 0

ServiceNext == Core \/ Handler

ServiceSpec == ServiceInit /\ [][ServiceNext]_vars

\* ------------------------------------------------------------ properties
\* the points of the processed segment, before and after
OriginalPoints == segment_points(gpx_data.tracks)
AnonymizedPoints == segment_points(gpx)

\* the input passes the three structural checks
Accepted ==
    /\ gpx_data.wellformed
    /\ gpx_data.tracks # <<>>
    /\ gpx_data.tracks[1].segments # <<>>
    /\ OriginalPoints # <<>>

\* no track, or no segment in the first track, or no point in its segment
StructurallyInvalid == gpx_data.wellformed /\ ~Accepted

ValidationMessages == {"No tracks found in GPX file", "No segments found in track",
                       "No points found in segment"}

\* anonymize_gpx is past its validation and its locals are alive
Running == pc \in {"extract", "reconstruct", "verify", "returned"}

\* the length in metres (units of pi/4 m) of leg k of a list of points
LegMetres(ps, k) ==
    calculate_distance(ps[k].latitude, ps[k].longitude,
                       ps[k + 1].latitude, ps[k + 1].longitude) * 1000

SameCoordinates(p, q) == p.latitude = q.latitude /\ p.longitude = q.longitude

\* C1: after anonymize_gpx, every leg of the anonymized track is as long as
\* the same leg of the original track to within 1 metre (a difference of d
\* units is d * pi/4 metres, and pi < 22/7).
C1_LegDistanceFidelity ==
    pc = "returned" =>
        \A k \in 1..(Len(OriginalPoints) - 1) :
            abs(LegMetres(AnonymizedPoints, k) - LegMetres(OriginalPoints, k)) * 22
                <= 4 * 7

\* C1 witness: a returned three-point track with a quarter-circle leg and a
\* half-circle leg whose points have all moved
C1_Witness ==
    /\ pc = "returned"
    /\ Len(OriginalPoints) = 3
    /\ LegMetres(OriginalPoints, 1) = 2 * R * 1000
    /\ LegMetres(OriginalPoints, 2) = 4 * R * 1000
    /\ \A k \in 1..3 : ~SameCoordinates(AnonymizedPoints[k], OriginalPoints[k])

\* a step taken after the reset of point 0 leaves point 0 as it is
PointZeroKept ==
    pc \in {"reconstruct", "verify", "returned"} =>
        segment_points(gpx')[1] = segment_points(gpx)[1]

\* C2: from the reset of point 0 on, point 0 is at latitude 0 and longitude
\* 0 whatever the original first point was, no later step changes point 0,
\* and the returned document shows it at (0, 0).
C2_OriginPinned ==
    /\ [](pc \in {"reconstruct", "verify", "returned"} =>
            /\ AnonymizedPoints[1].latitude = 0
            /\ AnonymizedPoints[1].longitude = 0)
    /\ [](pc = "returned" =>
            /\ result.xml[1][1][1][2] = 0
            /\ result.xml[1][1][1][3] = 0)
    /\ [][PointZeroKept]_vars

\* C2 witness: a returned track whose first point was not at (0, 0) and
\* whose first leg is not empty
C2_Witness ==
    /\ pc = "returned"
    /\ Len(OriginalPoints) >= 2
    /\ OriginalPoints[1].latitude = -90
    /\ LegMetres(OriginalPoints, 1) # 0

C4_LengthAndElevations ==
    pc = "returned" =>
        /\ Len(AnonymizedPoints) = Len(OriginalPoints)
        /\ Len(result.xml[1][1]) = Len(OriginalPoints)
        /\ \A k \in 2..Len(OriginalPoints) :
              LET e == IF OriginalPoints[k].elevation = NoElevation
                       THEN <<0>> ELSE OriginalPoints[k].elevation
              IN  /\ AnonymizedPoints[k].elevation = e
                  /\ result.xml[1][1][k][4] = e

\* C4 witness: a returned three-point track whose second point had no
\* elevation and whose first and third had different ones
C4_Witness ==
    /\ pc = "returned"
    /\ Len(OriginalPoints) = 3
    /\ OriginalPoints[1].elevation = <<35>>
    /\ OriginalPoints[2].elevation = NoElevation
    /\ OriginalPoints[3].elevation = <<0>>

\* C5: on an input without track, segment or point, anonymize_gpx never
\* reaches extraction, reconstruction or verification, computes no metric,
\* writes no coordinate, returns nothing, and ends by raising the
\* validation error.
C5_ValidationBeforeComputation ==
    (StructurallyInvalid /\ pc # "idle") =>
        /\ pc \in {"start", "raised"}
        /\ gpx \in {<<>>, gpx_data.tracks}
        /\ original_points = <<>>
        /\ original_distances = <<>>
        /\ segment_distances = <<>>
        /\ segment_bearings = <<>>
        /\ anonymized_distances = <<>>
        /\ original_distance = 0
        /\ anonymized_distance = 0
        /\ result.kind # "return"
        /\ pc = "raised" =>
              /\ result.kind = "HTTPException"
              /\ result.detail \in ValidationMessages

\* C5 witness: the error was raised for a first segment without points in
\* a document whose other track holds points
C5_Witness ==
    /\ pc = "raised"
    /\ result.kind = "HTTPException"
    /\ result.detail = "No points found in segment"
    /\ Len(gpx_data.tracks) = 2
    /\ gpx_data.tracks[2].segments # <<>>
    /\ gpx_data.tracks[2].segments[1].points # <<>>

\* C6 as stated: when anonymize_gpx has raised a structural validation
\* failure, the handler's response has status 400.
C6_ValidationAnswered400 ==
    (/\ hpc = "respond"
     /\ result.kind = "HTTPException"
     /\ result.detail \in ValidationMessages) => response.status_code = 400

\* C7: a track of exactly one point raises no error and returns one point
\* at (0, 0) with both total distances 0.
C7_SinglePoint ==
    (Accepted /\ Len(OriginalPoints) = 1) =>
        /\ pc # "raised"
        /\ pc = "returned" =>
              /\ result.kind = "return"
              /\ Len(AnonymizedPoints) = 1
              /\ AnonymizedPoints[1].latitude = 0
              /\ AnonymizedPoints[1].longitude = 0
              /\ Len(result.xml[1][1]) = 1
              /\ result.xml[1][1][1][2] = 0
              /\ result.xml[1][1][1][3] = 0
              /\ result.original_distance = 0
              /\ result.anonymized_distance = 0

\* C7 witness: a returned one-point track whose point was at (-90, 90)
C7_Witness ==
    /\ pc = "returned"
    /\ Len(OriginalPoints) = 1
    /\ OriginalPoints[1].latitude = -90
    /\ OriginalPoints[1].longitude = 90

\* a step taken after the extraction loop leaves the stored metrics alone
MetricsKept ==
    pc \in {"reconstruct", "verify", "returned"} =>
        UNCHANGED <<segment_distances, segment_bearings>>

\* an iteration of the reconstruction loop writes point i + 1 and no other,
\* at the position reached from point i with the stored metrics of leg i
ForwardWrite ==
    (pc = "reconstruct" /\ pc' = "reconstruct") =>
        /\ i' = i + 1
        /\ \A k \in 1..Len(AnonymizedPoints) :
              k # i + 2 => segment_points(gpx')[k] = AnonymizedPoints[k]
        /\ SameCoordinates(segment_points(gpx')[i + 2],
                           new_position(AnonymizedPoints[i + 1],
                                        segment_distances[i + 1],
                                        segment_bearings[i + 1]))

\* a step taken after the reconstruction loop writes nothing
NoLateWrite == pc \in {"verify", "returned"} => gpx' = gpx

\* C8: no coordinate is written while the extraction loop runs; once it is
\* over there is one stored distance and bearing per leg, each computed from
\* the original coordinates of its two ends, and they never change again;
\* every step of the reconstruction writes exactly point i + 1, from the
\* current point i and the stored metrics of leg i, and moves on to i + 1;
\* nothing is written after the reconstruction.
C8_MetricsFromOriginalThenForward ==
    /\ [](pc = "extract" => gpx = gpx_data.tracks)
    /\ [](Running =>
            /\ Len(segment_bearings) = Len(segment_distances)
            /\ pc # "extract" => Len(segment_distances) = Len(OriginalPoints) - 1
            /\ \A k \in 1..Len(segment_distances) :
                  /\ segment_distances[k] * 1000 = LegMetres(OriginalPoints, k)
                  /\ segment_bearings[k] =
                        calculate_bearing(OriginalPoints[k], OriginalPoints[k + 1]))
    /\ [][MetricsKept]_vars
    /\ [][ForwardWrite]_vars
    /\ [][NoLateWrite]_vars

\* C8 witness: a returned three-point track all of whose points moved, and
\* whose second leg measured from the moved second point would have been
\* different
C8_Witness ==
    /\ pc = "returned"
    /\ Len(OriginalPoints) = 3
    /\ \A k \in 1..3 : ~SameCoordinates(AnonymizedPoints[k], OriginalPoints[k])
    /\ calculate_distance(AnonymizedPoints[2].latitude, AnonymizedPoints[2].longitude,
                          OriginalPoints[3].latitude, OriginalPoints[3].longitude)
          # segment_distances[2]

\* C9: the document keeps its tracks and segments, and every segment other
\* than the first segment of the first track keeps its points unchanged, in
\* memory and in the returned document.
C9_OtherSegmentsUntouched ==
    (gpx_data.wellformed /\ pc \in {"raised", "extract", "reconstruct",
                                    "verify", "returned"}) =>
        /\ Len(gpx) = Len(gpx_data.tracks)
        /\ \A t \in 1..Len(gpx) :
              /\ Len(gpx[t].segments) = Len(gpx_data.tracks[t].segments)
              /\ \A s \in 1..Len(gpx[t].segments) :
                    <<t, s>> # <<1, 1>> =>
                        /\ gpx[t].segments[s] = gpx_data.tracks[t].segments[s]
                        /\ pc = "returned" =>
                              result.xml[t][s] = to_xml(gpx_data.tracks)[t][s]
        /\ pc = "returned" =>
              /\ Len(result.xml) = Len(gpx_data.tracks)
              /\ \A t \in 1..Len(gpx) :
                    Len(result.xml[t]) = Len(gpx_data.tracks[t].segments)

\* C9 witness: a returned document with two tracks and two segments in the
\* first, all holding points, whose processed segment has changed
C9_Witness ==
    /\ pc = "returned"
    /\ Len(gpx) = 2
    /\ Len(gpx[1].segments) = 2
    /\ gpx[1].segments[2].points # <<>>
    /\ gpx[2].segments # <<>>
    /\ gpx[2].segments[1].points # <<>>
    /\ gpx[1].segments[1] # gpx_data.tracks[1].segments[1]

\* C10 as stated: once the response has been sent and the handler is idle
\* again, no temporary file is left on disk.
C10_TempFilesDeleted == hpc = "idle" => temp_files = {}

====
